---- MODULE Spec2Model ----
(***************************************************************************)
(* Model of the subsidy portal scraper (src/subsidy_scraper/scraper.py)    *)
(* and of the local search over its output                                 *)
(* (src/subsidy_search_lib/local_data.py).                                 *)
(*                                                                         *)
(* A fetched page is modelled by its parsed document: a tree of nodes, as  *)
(* BeautifulSoup builds it.  A node is a record                            *)
(*   [name, href, class, text, kids]                                       *)
(* where name is the tag name ("#text" for a text node, "[document]" for   *)
(* the root), href the link target of an <a>, class the class attribute,   *)
(* text the characters of a text node and kids the child nodes in document *)
(* order.  Text is a sequence of tokens; a token stands for a fixed run of *)
(* characters whose number is Width(token).                                *)
(*                                                                         *)
(* Optional values (None in the source) are sequences of length at most 1. *)
(***************************************************************************)
EXTENDS Integers, Sequences, FiniteSets, TLC

VARIABLES
    \* ---- SubsidyScraper object and one scrape_all activation ----
    pc,            \* position in scrape_all: "idle","first","pages","details","done"
    delay,         \* self.delay, in tenths of a second
    fetch_details, \* self.fetch_details
    scraped_urls,  \* self.scraped_urls
    max_pages,     \* argument of scrape_all: <<>> is None, <<m>> an integer
    all_subsidies, \* local all_subsidies
    html,          \* local html: <<>> is None, <<doc>> a fetched document
    total_pages,   \* local total_pages
    page,          \* loop variable of the listing loop (next page to handle)
    idx,           \* loop variable of the enrichment loop (next record)
    listed,        \* value of all_subsidies when the listing loop ended
    log,           \* calls made so far to time.sleep and session.get, in order
    accepted,      \* the candidates of this run that passed the duplicate check of
                   \* _parse_subsidy_card, in order: [url, titled]
    first,         \* <<>>, or <<[log, ret]>>: the calls and the return value of the
                   \* first scrape_all call on this object, once a second is made
    file,          \* the output file: <<>> when it does not exist, else <<data>>
    \* ---- direct calls of the page functions ----
    fn,            \* which function is called: "none","pages","list","card",
                   \* "detail","search"
    arg,           \* the call: [html, seen], its html argument (a document or a
                   \* card) and self.scraped_urls when it is made; for "search",
                   \* [subsidies, keyword, target_area, acceptance_only]
    ret,           \* its return value, <<>> before the call
    cards          \* containers handed to _parse_subsidy_card by the call

vars == <<pc, delay, fetch_details, scraped_urls, max_pages, all_subsidies, html,
          total_pages, page, idx, listed, log, accepted, first, file,
          fn, arg, ret, cards>>

scrapeVars == <<pc, delay, fetch_details, max_pages, all_subsidies, html,
                total_pages, page, idx, listed, log, first, file>>

-----------------------------------------------------------------------------
(* Program constants *)

ITEMS_PER_PAGE == 10

DEFAULT_PREF_ID == 18

\* len(card.get_text()) > 50
CARD_TEXT_MIN == 50

\* for _ in range(5)
CARD_LEVELS == 5

\* \d{1,4}
COUNT_DIGITS == 4

\* if card.name in ["article", "div", "li", "section"]
CardTags == {"article", "div", "li", "section"}

\* len(line) > 20
DESCRIPTION_MIN == 20

\* len(text) > 50 and long_texts[:3]
PARAGRAPH_MIN == 50

PARAGRAPHS == 3

-----------------------------------------------------------------------------
(* Sequences *)

RECURSIVE Flatten(_)
Flatten(ss) == IF ss = <<>> THEN <<>> ELSE Head(ss) \o Flatten(Tail(ss))

RECURSIVE SumSeq(_)
SumSeq(s) == IF s = <<>> THEN 0 ELSE Head(s) + SumSeq(Tail(s))

Range(s) == {s[i] : i \in 1..Len(s)}

Max(a, b) == IF a >= b THEN a ELSE b

Min(a, b) == IF a <= b THEN a ELSE b

-----------------------------------------------------------------------------
(* Text *)

Digits == {"0", "1", "2", "3", "4", "5", "6", "7", "8", "9"}

\* characters matched by \s and removed by str.strip()
Spaces == {" ", "\n"}

\* Tokens name runs of Japanese text of the source in ASCII:
\*   "GAITOU"   the caption marker of _get_total_count (7 characters)
\*   "JOSEIKIN" the rest of the caption label (4)     "KEN" the counter (1)
\*   "KOUBOCHU" / "KOUBOSHURYO" the status words (3 / 4)
\*   "KAGI"     the opening bracket that marks a title line (1)
\*   "HYOJI", "SHOENE", "SETSUBI" plain words (2, 6, 6)
\*   "SHOSAIWOMIRU" the text of a "see details" link (5)
\*   "GAIYO", "MOKUTEKI", "TAISHOSHA", "TAISHO", "HOJORITSU", "HOJOJOGEN",
\*   "HOJOKINGAKU", "TAISHOKEIHI", "HOJOTAISHO", "SHINSEIHOHO", "TOIAWASE",
\*   "RENRAKUSAKI" the heading words of _fetch_detail_page
\*   "KOSHIKI", "SHOSAI", "SHINSEI" the link words of _fetch_detail_page
\*   "text45", "text20"  45 and 20 characters of plain text
\*   "KOUBO_CHU" / "KOUBO_SHURYO" the status words with a blank inside (4 / 5)
\*   "COLON"    the full-width colon that precedes the bracket of a title (1)
\*   "SHINSEIKIKAN", "JOGENKINGAKU" the labels of the period and amount lines (4)
\*   "FUKUIKEN", "HOKKAIDO", "TOKYOTO", "OSAKAFU", "AICHIKEN", "FUKUOKAKEN",
\*   "NIIGATAKEN", "ISHIKAWAKEN", "TOYAMAKEN" the prefecture names (3 each)
\*   "FUKUI"    the prefecture name without its suffix (2), "SAKAISHI" a city (3)
\*   "DATE1", "DATE2" two dates written year-month-day (9 and 10)
\*   "KARA"     the wave dash between two dates (1), "MANEN" an amount unit (2)
\*   "MONODUKURI" a tag word (5)
\*   "#" and Latin letters and digits stand for themselves
\* every other token is one character.
Width(t) ==
    CASE t = "GAITOU" -> 7
      [] t \in {"TOIAWASE", "SHOSAIWOMIRU", "KOUBO_SHURYO", "MONODUKURI"} -> 5
      [] t \in {"SHOENE", "SETSUBI"} -> 6
      [] t \in {"JOSEIKIN", "KOUBOSHURYO", "HOJOJOGEN", "HOJOKINGAKU", "TAISHOKEIHI",
                "HOJOTAISHO", "SHINSEIHOHO", "KOUBO_CHU", "SHINSEIKIKAN",
                "JOGENKINGAKU"} -> 4
      [] t \in {"KOUBOCHU", "TAISHOSHA", "HOJORITSU", "RENRAKUSAKI", "FUKUIKEN",
                "HOKKAIDO", "TOKYOTO", "OSAKAFU", "AICHIKEN", "FUKUOKAKEN",
                "NIIGATAKEN", "ISHIKAWAKEN", "TOYAMAKEN", "SAKAISHI"} -> 3
      [] t \in {"HYOJI", "GAIYO", "MOKUTEKI", "TAISHO", "KOSHIKI", "SHOSAI", "SHINSEI",
                "FUKUI", "MANEN"} -> 2
      [] t = "text45" -> 45
      [] t = "text20" -> 20
      [] t = "DATE1" -> 9
      [] t = "DATE2" -> 10
      [] OTHER -> 1

\* the words a token holds as substrings
Parts(t) ==
    {t} \cup (CASE t \in {"TAISHOSHA", "TAISHOKEIHI", "HOJOTAISHO"} -> {"TAISHO"}
                [] t \in {"SHINSEIHOHO", "SHINSEIKIKAN"} -> {"SHINSEI"}
                [] t = "FUKUIKEN" -> {"FUKUI"}
                [] t = "SHOSAIWOMIRU" -> {"SHOSAI"}
                [] OTHER -> {})

\* word in text
Contains(text, word) == \E i \in 1..Len(text) : word \in Parts(text[i])

\* len(s)
StrLen(s) == SumSeq([i \in 1..Len(s) |-> Width(s[i])])

\* s.strip()
RECURSIVE LStrip(_)
LStrip(s) == IF s # <<>> /\ Head(s) \in Spaces THEN LStrip(Tail(s)) ELSE s

RECURSIVE RStrip(_)
RStrip(s) ==
    IF s # <<>> /\ s[Len(s)] \in Spaces THEN RStrip(SubSeq(s, 1, Len(s) - 1)) ELSE s

Strip(s) == RStrip(LStrip(s))

\* s.replace(t, "") for a token t
RECURSIVE Remove(_, _)
Remove(s, t) ==
    IF s = <<>> THEN <<>>
    ELSE IF Head(s) = t THEN Remove(Tail(s), t)
    ELSE <<Head(s)>> \o Remove(Tail(s), t)

DigitVal(d) ==
    CASE d = "0" -> 0 [] d = "1" -> 1 [] d = "2" -> 2 [] d = "3" -> 3 [] d = "4" -> 4
      [] d = "5" -> 5 [] d = "6" -> 6 [] d = "7" -> 7 [] d = "8" -> 8 [] d = "9" -> 9

\* int(s) for a string of digits
RECURSIVE ToInt(_)
ToInt(s) == IF s = <<>> THEN 0 ELSE 10 * ToInt(SubSeq(s, 1, Len(s) - 1)) + DigitVal(s[Len(s)])

-----------------------------------------------------------------------------
(* Documents *)

\* link targets: kind "detail" is .../subsidies/<n>, kind "page" is ...?page=<n>;
\* abs tells whether the target starts with "http"
NoHref == [kind |-> "none", abs |-> FALSE, n |-> 0]

DetailHref(abs, n) == [kind |-> "detail", abs |-> abs, n |-> n]

PageHref(n) == [kind |-> "page", abs |-> FALSE, n |-> n]

OtherHref == [kind |-> "other", abs |-> FALSE, n |-> 0]

\* an absolute target outside the portal's domain
ExternalHref == [kind |-> "external", abs |-> TRUE, n |-> 0]

TextNode(toks) ==
    [name |-> "#text", href |-> NoHref, class |-> "", text |-> toks, kids |-> <<>>]

Elem(name, kids) ==
    [name |-> name, href |-> NoHref, class |-> "", text |-> <<>>, kids |-> kids]

ClassElem(name, class, kids) ==
    [name |-> name, href |-> NoHref, class |-> class, text |-> <<>>, kids |-> kids]

Anchor(href, kids) ==
    [name |-> "a", href |-> href, class |-> "", text |-> <<>>, kids |-> kids]

\* BeautifulSoup(html, "html.parser")
Doc(kids) == Elem("[document]", kids)

\* the document of the empty string
EmptyDoc == Doc(<<>>)

\* node.get_text(): the text nodes of the subtree, concatenated
RECURSIVE GetText(_)
GetText(node) ==
    IF node.name = "#text" THEN node.text
    ELSE Flatten([i \in 1..Len(node.kids) |-> GetText(node.kids[i])])

\* [line.strip() for line in node.get_text(separator="\n", strip=True).split("\n")
\*  if line.strip()]; a text node holds no line break of its own
RECURSIVE GetLines(_)
GetLines(node) ==
    IF node.name = "#text"
    THEN IF Strip(node.text) = <<>> THEN <<>> ELSE <<Strip(node.text)>>
    ELSE Flatten([i \in 1..Len(node.kids) |-> GetLines(node.kids[i])])

\* the node reached from root by the child indices of path
RECURSIVE NodeAt(_, _)
NodeAt(root, path) ==
    IF path = <<>> THEN root ELSE NodeAt(root.kids[Head(path)], Tail(path))

\* re.compile(r'/subsidies/\d+') searched in an href
IsDetailHref(href) == href.kind = "detail"

\* node.find_all("a", href=re.compile(r'/subsidies/\d+')): the paths, below node,
\* of the matching descendants in document order
RECURSIVE DetailLinks(_, _)
DetailLinks(node, path) ==
    Flatten([i \in 1..Len(node.kids) |->
        LET kid == node.kids[i]
            p == Append(path, i)
        IN  (IF kid.name = "a" /\ IsDetailHref(kid.href) THEN <<p>> ELSE <<>>)
                \o DetailLinks(kid, p)])

\* node.find_all("a", href=True): the link targets of all anchors, document order
RECURSIVE AllHrefs(_)
AllHrefs(node) ==
    Flatten([i \in 1..Len(node.kids) |->
        LET kid == node.kids[i]
        IN  (IF kid.name = "a" /\ kid.href.kind # "none" THEN <<kid.href>> ELSE <<>>)
                \o AllHrefs(kid)])

-----------------------------------------------------------------------------
(* Pagination resolver: _get_total_count, _get_total_pages *)

\* \s*KEN matched at position k of text
RECURSIVE SpacesThenKen(_, _)
SpacesThenKen(text, k) ==
    /\ k <= Len(text)
    /\ \/ text[k] = "KEN"
       \/ text[k] \in Spaces /\ SpacesThenKen(text, k + 1)

\* (\d{1,4})\s*KEN matched at position j of text: <<>> when it does not match,
\* else <<group 1>>; the quantifier is greedy, so the longest run that lets the
\* rest match is taken
CountAt(text, j) ==
    LET fits == {d \in 1..COUNT_DIGITS :
                    /\ j + d - 1 <= Len(text)
                    /\ \A i \in j..(j + d - 1) : text[i] \in Digits
                    /\ SpacesThenKen(text, j + d)}
    IN  IF fits = {} THEN <<>>
        ELSE LET d == CHOOSE x \in fits : \A y \in fits : y <= x
             IN  <<SubSeq(text, j, j + d - 1)>>

\* re.search(r'GAITOU.*?(\d{1,4})\s*KEN', text): leftmost marker from which the
\* pattern matches; .*? is lazy and does not cross a line break
CaptionSearch(text) ==
    LET ends(s) == {j \in (s + 1)..Len(text) :
                       /\ \A i \in (s + 1)..(j - 1) : text[i] # "\n"
                       /\ CountAt(text, j) # <<>>}
        starts == {s \in 1..Len(text) : text[s] = "GAITOU" /\ ends(s) # {}}
    IN  IF starts = {} THEN <<>>
        ELSE LET s == CHOOSE x \in starts : \A y \in starts : x <= y
                 j == CHOOSE x \in ends(s) : \A y \in ends(s) : x <= y
             IN  CountAt(text, j)

\* re.search(r'(\d{1,4})\s*KEN', text)
AnyCountSearch(text) ==
    LET starts == {j \in 1..Len(text) : CountAt(text, j) # <<>>}
    IN  IF starts = {} THEN <<>>
        ELSE CountAt(text, CHOOSE x \in starts : \A y \in starts : x <= y)

_get_total_count(doc) ==
    LET text == GetText(doc)
        m1 == CaptionSearch(text)
        m2 == AnyCountSearch(text)
    IN  IF m1 # <<>> THEN ToInt(m1[1])
        ELSE IF m2 # <<>> THEN ToInt(m2[1])
        ELSE 0

\* MaxPageLink with "max_page = page_num" for "max_page = max(max_page, page_num)"
RECURSIVE MaxPageLink_Last(_, _)
MaxPageLink_Last(hrefs, max_page) ==
    IF hrefs = <<>> THEN max_page
    ELSE MaxPageLink_Last(Tail(hrefs),
                          IF Head(hrefs).kind = "page" THEN Head(hrefs).n ELSE max_page)

\* the loop over soup.find_all("a", href=True) with re.search(r'page=(\d+)', href)
RECURSIVE MaxPageLink(_, _)
MaxPageLink(hrefs, max_page) ==
    IF hrefs = <<>> THEN max_page
    ELSE MaxPageLink(Tail(hrefs),
                     IF Head(hrefs).kind = "page" THEN Max(max_page, Head(hrefs).n)
                     ELSE max_page)

_get_total_pages(doc) ==
    LET total_count == _get_total_count(doc)
    IN  IF total_count > 0
        THEN (total_count + ITEMS_PER_PAGE - 1) \div ITEMS_PER_PAGE
        ELSE MaxPageLink(AllHrefs(doc), 1)

-----------------------------------------------------------------------------
(* Card extractor: _parse_subsidy_card, _parse_list_page *)

\* re.search(r'/subsidies/(\d+)', url): <<>> is None
_extract_subsidy_id(url) == IF url.kind = "detail" THEN <<url.n>> ELSE <<>>

\* if not href.startswith("http"): href = self.DETAIL_BASE_URL + href
AbsoluteUrl(href) == IF href.abs THEN href ELSE [href EXCEPT !.abs = TRUE]

\* the title scan: the first line holding the opening bracket, with the status
\* words removed and stripped; <<>> when no line holds it (no "title" key)
RECURSIVE TitleOf(_)
TitleOf(lines) ==
    IF lines = <<>> THEN <<>>
    ELSE IF "KAGI" \in Range(Head(lines))
         THEN <<Strip(Remove(Remove(Head(lines), "KOUBOCHU"), "KOUBOSHURYO"))>>
         ELSE TitleOf(Tail(lines))

\* the status scan: the first line that is a status word, blanks removed
RECURSIVE StatusOf(_)
StatusOf(lines) ==
    IF lines = <<>> THEN <<>>
    ELSE IF Head(lines) \in {<<"KOUBOCHU">>, <<"KOUBO_CHU">>} THEN << <<"KOUBOCHU">> >>
    ELSE IF Head(lines) \in {<<"KOUBOSHURYO">>, <<"KOUBO_SHURYO">>}
         THEN << <<"KOUBOSHURYO">> >>
    ELSE StatusOf(Tail(lines))

\* the names of the prefecture scan
Prefectures ==
    {"FUKUIKEN", "HOKKAIDO", "TOKYOTO", "OSAKAFU", "AICHIKEN", "FUKUOKAKEN",
     "NIIGATAKEN", "ISHIKAWAKEN", "TOYAMAKEN"}

\* the prefecture scan: the first line that is a prefecture name
RECURSIVE PrefectureOf(_)
PrefectureOf(lines) ==
    IF lines = <<>> THEN <<>>
    ELSE IF Len(Head(lines)) = 1 /\ Head(lines)[1] \in Prefectures THEN <<Head(lines)>>
    ELSE PrefectureOf(Tail(lines))

\* the first line that contains word, <<>> when there is none
RECURSIVE FirstLineWith(_, _)
FirstLineWith(lines, word) ==
    IF lines = <<>> THEN <<>>
    ELSE IF Contains(Head(lines), word) THEN <<Head(lines)>>
    ELSE FirstLineWith(Tail(lines), word)

\* the label scans: line.replace(label, "").strip() of the first line with the label
LabelledOf(lines, label) ==
    IF FirstLineWith(lines, label) = <<>> THEN <<>>
    ELSE <<Strip(Remove(FirstLineWith(lines, label)[1], label))>>

\* strings matched by \d{4}.\d{1,2}.\d{1,2}. with the year, month and day signs
Dates == {"DATE1", "DATE2"}

\* the first position from k on that holds no blank
RECURSIVE SkipSpaces(_, _)
SkipSpaces(line, k) ==
    IF k <= Len(line) /\ line[k] \in Spaces THEN SkipSpaces(line, k + 1) ELSE k

\* period_pattern matched with its label at position s of line: <<>> when it does
\* not match, else <<[start, end]>> with the two optional groups
PeriodAt(line, s) ==
    LET a == SkipSpaces(line, s + 1)
        start == IF a <= Len(line) /\ line[a] \in Dates THEN <<line[a]>> ELSE <<>>
        b == SkipSpaces(line, a + Len(start))
        c == SkipSpaces(line, b + 1)
    IN  IF line[s] = "SHINSEIKIKAN" /\ b <= Len(line) /\ line[b] = "KARA"
        THEN <<[start |-> start,
                end |-> IF c <= Len(line) /\ line[c] \in Dates THEN <<line[c]>> ELSE <<>>]>>
        ELSE <<>>

\* re.search(period_pattern, line)
PeriodSearch(line) ==
    LET starts == {s \in 1..Len(line) : PeriodAt(line, s) # <<>>}
    IN  IF starts = {} THEN <<>>
        ELSE PeriodAt(line, CHOOSE x \in starts : \A y \in starts : x <= y)

\* the period scan: group n ("start" or "end") of the pattern on the first line
\* with the label; <<>> when the key is not set
DateOf(lines, n) ==
    LET found == FirstLineWith(lines, "SHINSEIKIKAN")
        match == IF found = <<>> THEN <<>> ELSE PeriodSearch(found[1])
    IN  IF match = <<>> THEN <<>>
        ELSE IF n = "start" THEN (IF match[1].start = <<>> THEN <<>> ELSE <<match[1].start>>)
        ELSE (IF match[1].end = <<>> THEN <<>> ELSE <<match[1].end>>)

\* exclude_keywords
ExcludeKeywords ==
    {"KOUBOCHU", "KOUBOSHURYO", "SHINSEIKIKAN", "JOGENKINGAKU", "FUKUIKEN", "HOKKAIDO"}

\* line.startswith("#")
StartsWithHash(line) == line # <<>> /\ Head(line) = "#"

\* the colon directly followed by the opening bracket is in line
HoldsColonBracket(line) ==
    \E i \in 1..(Len(line) - 1) : line[i] = "COLON" /\ line[i + 1] = "KAGI"

\* the description scan
RECURSIVE DescriptionOf(_)
DescriptionOf(lines) ==
    IF lines = <<>> THEN <<>>
    ELSE IF /\ ~StartsWithHash(Head(lines))
            /\ ~HoldsColonBracket(Head(lines))
            /\ \A kw \in ExcludeKeywords : ~Contains(Head(lines), kw)
            /\ StrLen(Head(lines)) > DESCRIPTION_MIN
         THEN <<Head(lines)>>
         ELSE DescriptionOf(Tail(lines))

\* re.findall(r'#[^#]+', line) from position k on, each match stripped: a match
\* starts at a "#" that another character follows and runs up to the next "#"
RECURSIVE FindAllTags(_, _)
FindAllTags(line, k) ==
    IF k > Len(line) THEN <<>>
    ELSE IF line[k] = "#" /\ k < Len(line) /\ line[k + 1] # "#"
         THEN LET hashes == {j \in (k + 1)..Len(line) : line[j] = "#"}
                  stop == IF hashes = {} THEN Len(line) + 1
                          ELSE CHOOSE x \in hashes : \A y \in hashes : x <= y
              IN  <<Strip(SubSeq(line, k, stop - 1))>> \o FindAllTags(line, stop)
         ELSE FindAllTags(line, k + 1)

\* TagsOf with a "break" after the first line that starts with "#"
RECURSIVE TagsOf_FirstLine(_)
TagsOf_FirstLine(lines) ==
    IF lines = <<>> THEN <<>>
    ELSE IF StartsWithHash(Head(lines)) THEN FindAllTags(Head(lines), 1)
    ELSE TagsOf_FirstLine(Tail(lines))

\* the tag loop: the list tags
RECURSIVE TagsOf(_)
TagsOf(lines) ==
    IF lines = <<>> THEN <<>>
    ELSE (IF StartsWithHash(Head(lines)) THEN FindAllTags(Head(lines), 1) ELSE <<>>)
            \o TagsOf(Tail(lines))

\* The dict built from line 87 on.  A record is
\*   [id, url, status, title, prefecture, application_period, start_date, end_date,
\*    max_amount, description, tags, details];
\* every field but id and url is <<>> when the key is absent, else <<value>>.
\* (lines is bound once, to the value of GetLines(card).)
Fields(card, subsidy_id, href) ==
    CHOOSE subsidy \in
        {[id |-> subsidy_id,
          url |-> href,
          status |-> StatusOf(lines),
          title |-> TitleOf(lines),
          prefecture |-> PrefectureOf(lines),
          application_period |-> LabelledOf(lines, "SHINSEIKIKAN"),
          start_date |-> DateOf(lines, "start"),
          end_date |-> DateOf(lines, "end"),
          max_amount |-> LabelledOf(lines, "JOGENKINGAKU"),
          description |-> DescriptionOf(lines),
          tags |-> IF TagsOf(lines) = <<>> THEN <<>> ELSE <<TagsOf(lines)>>,
          details |-> <<>>] : lines \in {GetLines(card)}} : TRUE

\* subsidy.get("title") is truthy
HasTitle(subsidy) == subsidy.title # <<>> /\ subsidy.title[1] # <<>>

\* _parse_subsidy_card without "or href in self.scraped_urls"
_parse_subsidy_card_NoSeenCheck(card, seen) ==
    LET links == DetailLinks(card, <<>>)
    IN  IF links = <<>> THEN [subsidy |-> <<>>, seen |-> seen]
        ELSE LET href == AbsoluteUrl(NodeAt(card, links[1]).href)
                 subsidy_id == _extract_subsidy_id(href)
             IN  IF subsidy_id = <<>>
                 THEN [subsidy |-> <<>>, seen |-> seen]
                 ELSE [subsidy |-> <<Fields(card, subsidy_id[1], href)>>,
                       seen |-> seen \cup {href}]

\* _parse_subsidy_card with "self.scraped_urls.add(href)" moved behind the title
\* scan: the URL is recorded only when a title was found
_parse_subsidy_card_SeenWhenTitled(card, seen) ==
    LET links == DetailLinks(card, <<>>)
    IN  IF links = <<>> THEN [subsidy |-> <<>>, seen |-> seen]
        ELSE LET href == AbsoluteUrl(NodeAt(card, links[1]).href)
                 subsidy_id == _extract_subsidy_id(href)
             IN  IF subsidy_id = <<>> \/ href \in seen
                 THEN [subsidy |-> <<>>, seen |-> seen]
                 ELSE [subsidy |-> <<Fields(card, subsidy_id[1], href)>>,
                       seen |-> IF TitleOf(GetLines(card)) # <<>>
                                THEN seen \cup {href} ELSE seen]

\* Returns [subsidy, seen]: subsidy is <<>> for None, else <<record>>; seen is
\* self.scraped_urls after the call.
_parse_subsidy_card(card, seen) ==
    LET links == DetailLinks(card, <<>>)
    IN  IF links = <<>> THEN [subsidy |-> <<>>, seen |-> seen]
        ELSE LET href == AbsoluteUrl(NodeAt(card, links[1]).href)
                 subsidy_id == _extract_subsidy_id(href)
             IN  IF subsidy_id = <<>> \/ href \in seen
                 THEN [subsidy |-> <<>>, seen |-> seen]
                 ELSE [subsidy |-> <<Fields(card, subsidy_id[1], href)>>,
                       seen |-> seen \cup {href}]

\* IsCard with ">= 50" for "> 50"
IsCard_AtLeast(card, processed_cards) ==
    /\ card \notin processed_cards
    /\ StrLen(GetText(card)) >= CARD_TEXT_MIN

\* the container test of the climb
IsCard(card, processed_cards) ==
    /\ card \notin processed_cards
    /\ StrLen(GetText(card)) > CARD_TEXT_MIN

\* FindCard with the "break" one level out: the climb stops at the first
\* block-level ancestor whether or not it passes the container test
FindCard_StopAtFirstBlock(doc, path, n, processed_cards) ==
    LET blocks == {k \in 1..Min(n, Len(path)) :
                      NodeAt(doc, SubSeq(path, 1, Len(path) - k)).name \in CardTags}
    IN  IF blocks = {} THEN <<>>
        ELSE LET k == CHOOSE x \in blocks : \A y \in blocks : x <= y
                 parent == SubSeq(path, 1, Len(path) - k)
             IN  IF StrLen(GetText(NodeAt(doc, parent))) > CARD_TEXT_MIN
                       /\ NodeAt(doc, parent) \notin processed_cards
                 THEN <<parent>> ELSE <<>>

\* the climb "for _ in range(5)" from the element at path, n rounds left: the
\* path of the container that is handed on, <<>> when the climb ends without one
RECURSIVE FindCard(_, _, _, _)
FindCard(doc, path, n, processed_cards) ==
    IF n = 0 \/ path = <<>> THEN <<>>
    ELSE LET parent == SubSeq(path, 1, Len(path) - 1)
             card == NodeAt(doc, parent)
         IN  IF card.name \in CardTags /\ IsCard(card, processed_cards)
             THEN <<parent>>
             ELSE FindCard(doc, parent, n - 1, processed_cards)

\* the state of the loop after _parse_subsidy_card(card) returned r
Visited(st, card, r) ==
    [subsidies |-> IF r.subsidy # <<>> /\ HasTitle(r.subsidy[1])
                   THEN Append(st.subsidies, r.subsidy[1])
                   ELSE st.subsidies,
     processed_cards |-> st.processed_cards \cup {card},
     seen |-> r.seen,
     accepted |-> IF r.subsidy # <<>>
                  THEN Append(st.accepted,
                              [url |-> r.subsidy[1].url,
                               titled |-> HasTitle(r.subsidy[1])])
                  ELSE st.accepted]

\* one round of "for link in links"; st is [subsidies, processed_cards, seen,
\* accepted]  (r is bound once, to the value of the call.)
VisitLink(doc, link, st) ==
    LET found == FindCard(doc, link, CARD_LEVELS, st.processed_cards)
    IN  IF found = <<>> THEN st
        ELSE CHOOSE next \in
                {Visited(st, NodeAt(doc, found[1]), r) :
                    r \in {_parse_subsidy_card(NodeAt(doc, found[1]), st.seen)}} : TRUE

RECURSIVE ListLoop(_, _, _)
ListLoop(doc, links, st) ==
    IF links = <<>> THEN st
    ELSE ListLoop(doc, Tail(links), VisitLink(doc, Head(links), st))

\* Returns [subsidies, processed_cards, seen, accepted]: the list returned, the
\* containers handed to _parse_subsidy_card, self.scraped_urls after the call, and
\* the candidates for which _parse_subsidy_card returned a dict, in order
_parse_list_page(doc, seen) ==
    ListLoop(doc, DetailLinks(doc, <<>>),
             [subsidies |-> <<>>, processed_cards |-> {}, seen |-> seen,
              accepted |-> <<>>])

-----------------------------------------------------------------------------
(* Detail enricher: _fetch_detail_page *)

\* node.get_text(strip=True): the stripped text nodes, concatenated
RECURSIVE GetTextStripped(_)
GetTextStripped(node) ==
    IF node.name = "#text" THEN Strip(node.text)
    ELSE Flatten([i \in 1..Len(node.kids) |-> GetTextStripped(node.kids[i])])

\* the paths of the elements below node, in document order
RECURSIVE Elements(_, _)
Elements(node, path) ==
    Flatten([i \in 1..Len(node.kids) |->
        IF node.kids[i].name = "#text" THEN <<>>
        ELSE <<Append(path, i)>> \o Elements(node.kids[i], Append(path, i))])

\* header.find_next_sibling(): the next element after the one at path under the
\* same parent, <<>> when there is none
RECURSIVE NextSibling(_, _, _)
NextSibling(doc, parent, i) ==
    IF i > Len(NodeAt(doc, parent).kids) THEN <<>>
    ELSE IF NodeAt(doc, parent).kids[i].name # "#text" THEN <<NodeAt(doc, parent).kids[i]>>
    ELSE NextSibling(doc, parent, i + 1)

\* details[key] = value
Assign(details, key, value) ==
    [k \in DOMAIN details \cup {key} |-> IF k = key THEN value ELSE details[k]]

\* the if/elif chain on header_text
AssignHeading(details, header_text, value) ==
    IF Contains(header_text, "GAIYO") \/ Contains(header_text, "MOKUTEKI")
    THEN Assign(details, "overview", value)
    ELSE IF Contains(header_text, "TAISHOSHA") \/ Contains(header_text, "TAISHO")
    THEN Assign(details, "target", value)
    ELSE IF Contains(header_text, "HOJORITSU")
    THEN Assign(details, "subsidy_rate", value)
    ELSE IF Contains(header_text, "HOJOJOGEN") \/ Contains(header_text, "HOJOKINGAKU")
    THEN Assign(details, "subsidy_limit", value)
    ELSE IF Contains(header_text, "TAISHOKEIHI") \/ Contains(header_text, "HOJOTAISHO")
    THEN Assign(details, "eligible_expenses", value)
    ELSE IF Contains(header_text, "SHINSEIHOHO")
    THEN Assign(details, "application_method", value)
    ELSE IF Contains(header_text, "TOIAWASE") \/ Contains(header_text, "RENRAKUSAKI")
    THEN Assign(details, "contact", value)
    ELSE details

\* for header in soup.find_all(["h2", "h3", "h4", "dt", "th"])
RECURSIVE HeadingLoop(_, _, _)
HeadingLoop(doc, paths, details) ==
    IF paths = <<>> THEN details
    ELSE LET path == Head(paths)
             header == NodeAt(doc, path)
             value_elem == NextSibling(doc, SubSeq(path, 1, Len(path) - 1),
                                       path[Len(path)] + 1)
             value == IF value_elem # <<>> THEN GetTextStripped(value_elem[1]) ELSE <<>>
         IN  HeadingLoop(doc, Tail(paths),
                 IF header.name \in {"h2", "h3", "h4", "dt", "th"}
                 THEN AssignHeading(details, GetTextStripped(header), value)
                 ELSE details)

\* re.compile(r'content|detail|main') searched in a class attribute
IsContentClass(class) ==
    class \in {"content", "detail", "main", "main-content", "subsidy-detail"}

\* the element is what soup.find looks for: a tag name, or "class" for
\* class_=re.compile(r'content|detail|main')
Matches(node, what) ==
    IF what = "class" THEN IsContentClass(node.class) ELSE node.name = what

\* soup.find(...): the first element of paths that matches, <<>> when none does
RECURSIVE FindFirst(_, _, _)
FindFirst(doc, paths, what) ==
    IF paths = <<>> THEN <<>>
    ELSE IF Matches(NodeAt(doc, Head(paths)), what) THEN <<NodeAt(doc, Head(paths))>>
    ELSE FindFirst(doc, Tail(paths), what)

\* soup.find("main") or soup.find("article") or soup.find(class_=...)
MainContent(doc) ==
    LET els == Elements(doc, <<>>)
    IN  IF FindFirst(doc, els, "main") # <<>> THEN FindFirst(doc, els, "main")
        ELSE IF FindFirst(doc, els, "article") # <<>> THEN FindFirst(doc, els, "article")
        ELSE FindFirst(doc, els, "class")

\* the texts of the <p> elements at paths below main_content that are longer than
\* 50 characters
RECURSIVE LongTexts(_, _)
LongTexts(main_content, paths) ==
    IF paths = <<>> THEN <<>>
    ELSE LET p == NodeAt(main_content, Head(paths))
         IN  (IF p.name = "p" /\ StrLen(GetTextStripped(p)) > PARAGRAPH_MIN
              THEN <<GetTextStripped(p)>> ELSE <<>>)
                \o LongTexts(main_content, Tail(paths))

\* "\n".join(texts)
RECURSIVE Join(_)
Join(texts) ==
    IF texts = <<>> THEN <<>>
    ELSE IF Len(texts) = 1 THEN texts[1]
    ELSE texts[1] \o <<"\n">> \o Join(Tail(texts))

\* the block that sets details["full_description"]
WithFullDescription(doc, details) ==
    LET main_content == MainContent(doc)
    IN  IF main_content = <<>> THEN details
        ELSE LET long_texts == LongTexts(main_content[1], Elements(main_content[1], <<>>))
             IN  IF long_texts # <<>> /\ "full_description" \notin DOMAIN details
                 THEN Assign(details, "full_description",
                             Join(SubSeq(long_texts, 1, Min(PARAGRAPHS, Len(long_texts)))))
                 ELSE details

\* the loop that sets details["official_url"]
RECURSIVE WithOfficialUrl(_, _, _)
WithOfficialUrl(doc, paths, details) ==
    IF paths = <<>> THEN details
    ELSE LET link == NodeAt(doc, Head(paths))
             text == GetTextStripped(link)
         IN  IF /\ link.name = "a" /\ link.href.kind # "none"
                /\ Contains(text, "KOSHIKI") \/ Contains(text, "SHOSAI")
                      \/ Contains(text, "SHINSEI")
                /\ link.href.abs /\ link.href.kind = "external"
             THEN Assign(details, "official_url", link.href)
             ELSE WithOfficialUrl(doc, Tail(paths), details)

\* The part of _fetch_detail_page after the fetch; fetched is the result of
\* _fetch_page(url): <<>> for None, else <<document>>, the empty document for "".  Returns the details dict, a function from its keys.
_fetch_detail_page(fetched) ==
    IF fetched = <<>> \/ fetched[1].kids = <<>> THEN <<>>
    ELSE LET doc == fetched[1]
             els == Elements(doc, <<>>)
         IN  WithOfficialUrl(doc, els,
                 WithFullDescription(doc, HeadingLoop(doc, els, <<>>)))

-----------------------------------------------------------------------------
(* Local search: LocalSubsidySearcher.search (subsidy_search_lib/local_data.py) *)

\* needle in hay, for two strings
In(needle, hay) ==
    \/ needle = <<>>
    \/ Len(needle) = 1 /\ Contains(hay, needle[1])
    \/ \E i \in 1..(Len(hay) - Len(needle) + 1) :
          SubSeq(hay, i, i + Len(needle) - 1) = needle

\* s.lower(): only the Latin letters have a lower case
Lower(s) ==
    [i \in 1..Len(s) |-> CASE s[i] = "D" -> "d" [] s[i] = "X" -> "x" [] OTHER -> s[i]]

\* subsidy.get(key, default) for a field that is <<>> when the key is absent
GetOr(field, default) == IF field = <<>> THEN default ELSE field[1]

\* "if p" for a string
Truthy(part) == part # <<>>

\* " ".join(parts)
RECURSIVE JoinBlank(_)
JoinBlank(parts) ==
    IF parts = <<>> THEN <<>>
    ELSE IF Len(parts) = 1 THEN parts[1]
    ELSE parts[1] \o <<" ">> \o JoinBlank(Tail(parts))

_get_searchable_text(subsidy) ==
    LET details == GetOr(subsidy.details, <<>>)
        detail(key) == IF key \in DOMAIN details THEN details[key] ELSE <<>>
        parts == << GetOr(subsidy.title, <<>>),
                    GetOr(subsidy.description, <<>>),
                    GetOr(subsidy.prefecture, <<>>),
                    GetOr(subsidy.status, <<>>),
                    GetOr(subsidy.max_amount, <<>>) >>
                 \o GetOr(subsidy.tags, <<>>)
                 \o (IF details # <<>>
                     THEN <<detail("overview"), detail("full_description"),
                            detail("target"), detail("eligible_expenses")>>
                     ELSE <<>>)
    IN  JoinBlank(SelectSeq(parts, Truthy))

\* the area filter does not skip the record: target_area is <<>> for None or ""
PassesArea(subsidy, target_area) ==
    LET prefecture == GetOr(subsidy.prefecture, <<>>)
        tags == GetOr(subsidy.tags, <<>>)
    IN  target_area # <<>> =>
            \/ ~(~In(target_area, prefecture) /\ ~In(prefecture, target_area))
            \/ \E i \in 1..Len(tags) : In(target_area, tags[i])

\* the status filter does not skip the record
PassesAcceptance(subsidy, acceptance_only) ==
    acceptance_only => In(<<"KOUBOCHU">>, GetOr(subsidy.status, <<>>))

\* search(keyword, target_area, acceptance_only) over self.subsidies
RECURSIVE search(_, _, _, _)
search(subsidies, keyword, target_area, acceptance_only) ==
    IF subsidies = <<>> THEN <<>>
    ELSE (IF /\ In(Lower(keyword), Lower(_get_searchable_text(Head(subsidies))))
             /\ PassesArea(Head(subsidies), target_area)
             /\ PassesAcceptance(Head(subsidies), acceptance_only)
          THEN <<Head(subsidies)>> ELSE <<>>)
            \o search(Tail(subsidies), keyword, target_area, acceptance_only)

-----------------------------------------------------------------------------
(* Pages the portal may serve *)

\* deepest nesting of containers around one anchor
MaxNesting == 6

\* most links on a page handed to _get_total_pages
MaxLinks == 2

\* a title line: status word, opening bracket, a name
TitleLine(n) ==
    IF n = 1 THEN <<"KOUBOCHU", "KAGI", "SHOENE">> ELSE <<"KAGI", "SETSUBI">>

\* the text of a link that carries no title
MoreText == <<"SHOSAIWOMIRU">>

\* one level of markup around child:
\*   "span"   <span>child</span>
\*   "text"   <div>child 45 characters</div>
\*   "title"  <div>title line child</div>
\*   "card"   <div>title line child 45 characters</div>
Wrap(kind, child) ==
    CASE kind = "span" -> Elem("span", <<child>>)
      [] kind = "text" -> Elem("div", <<child, TextNode(<<"text45">>)>>)
      [] kind = "title" -> Elem("div", <<TextNode(TitleLine(1)), child>>)
      [] kind = "card" ->
            Elem("div", <<TextNode(TitleLine(1)), child, TextNode(<<" ", "text45">>)>>)

LevelKinds == {"span", "text", "title", "card"}

RECURSIVE Nest(_, _)
Nest(inner, levels) ==
    IF levels = <<>> THEN inner ELSE Nest(Wrap(Head(levels), inner), Tail(levels))

\* pages with one detail anchor inside up to MaxNesting levels of markup
NestedDocs ==
    {Doc(<<Nest(Anchor(DetailHref(FALSE, 1), <<TextNode(MoreText)>>), levels)>>) :
        levels \in UNION {[1..k -> LevelKinds] : k \in 0..MaxNesting}}

\* a result card for subsidy n:
\*   "full"     <div><a href=/subsidies/n>title</a>45 characters</div>
\*   "absolute" the same with an absolute link target
\*   "untitled" <div><a href=/subsidies/n>more</a>45 characters + 2</div>
\*   "double"   "full" with a second anchor to the same target
\*   "short"    <div><a href=/subsidies/n>title</a></div>
\*   "related"  "full" with a second anchor to the other subsidy
Card(kind, n) ==
    CASE kind = "full" ->
            Elem("div", <<Anchor(DetailHref(FALSE, n), <<TextNode(TitleLine(n))>>),
                          TextNode(<<"text45">>)>>)
      [] kind = "absolute" ->
            Elem("div", <<Anchor(DetailHref(TRUE, n), <<TextNode(TitleLine(n))>>),
                          TextNode(<<"text45">>)>>)
      [] kind = "untitled" ->
            Elem("div", <<Anchor(DetailHref(FALSE, n), <<TextNode(MoreText)>>),
                          TextNode(<<"text45", "HYOJI">>)>>)
      [] kind = "double" ->
            Elem("div", <<Anchor(DetailHref(FALSE, n), <<TextNode(TitleLine(n))>>),
                          TextNode(<<"text45">>),
                          Anchor(DetailHref(FALSE, n), <<TextNode(MoreText)>>)>>)
      [] kind = "short" ->
            Elem("div", <<Anchor(DetailHref(FALSE, n), <<TextNode(TitleLine(n))>>)>>)
      [] kind = "related" ->
            Elem("div", <<Anchor(DetailHref(FALSE, n), <<TextNode(TitleLine(n))>>),
                          TextNode(<<"text45">>),
                          Anchor(DetailHref(FALSE, 3 - n), <<TextNode(MoreText)>>)>>)

\* a listing page: caption text, then the result cards in one list container
ListDoc(caption, cardlist) ==
    Doc(<<Elem("p", <<TextNode(caption)>>), Elem("div", cardlist)>>)

\* the result lists of the listing pages
CardLists ==
    { <<>>,
      <<Card("full", 1)>>,
      <<Card("full", 2), Card("double", 1)>>,
      <<Card("untitled", 1), Card("full", 1)>>,
      <<Card("full", 1), Card("absolute", 1)>> }

\* the caption of a listing whose results fill k pages
CaptionFor(k) ==
    <<"GAITOU", "JOSEIKIN", " ">>
        \o (CASE k = 1 -> <<"5">> [] k = 2 -> <<"1", "5">> [] k = 3 -> <<"2", "5">>
              [] k = 4 -> <<"3", "5">> [] OTHER -> <<"4", "5">>)
        \o <<"KEN">>

FlatDocs ==
    {ListDoc(<<>>, cs) :
        cs \in CardLists \cup { <<Card("short", 2), Card("full", 1)>>,
                                <<Card("related", 1)>>,
                                <<Card("related", 2), Card("full", 1)>> }}

\* the numbers a caption may show
CountStrings ==
    { <<"1">>, <<"9">>, <<"1", "0">>, <<"1", "1">>, <<"2", "5">>, <<"8", "3", "1">>,
      <<"9", "9", "9", "9">>, <<"1", "0", "0", "0", "0">>, <<"1", "2", "3", "4", "5">> }

\* caption texts: the marker, the label or not, the number, the counter
Captions ==
    {<<"GAITOU">> \o label \o digits \o gap \o <<"KEN">> :
        label \in {<<>>, <<"JOSEIKIN", " ">>},
        digits \in CountStrings,
        gap \in {<<>>, <<" ">>}}

\* texts that are no caption
NoCaptions == { <<>>, <<"SHOENE">>, <<"GAITOU", "JOSEIKIN">>, <<"0", "KEN">> }

\* text before and after the caption
Befores == { <<>>, <<"3", "KEN", "HYOJI", "\n">> }

Afters == { <<>>, <<"\n", "2", "0", "KEN">> }

LinkTargets == { PageHref(0), PageHref(2), PageHref(3), OtherHref, DetailHref(FALSE, 1) }

\* arguments of _get_total_pages: a text and up to MaxLinks links
PaginationDocs ==
    {Doc(<<TextNode(b \o c \o a)>>
            \o [i \in 1..Len(ls) |-> Anchor(ls[i], <<TextNode(MoreText)>>)]) :
        b \in Befores,
        c \in Captions \cup NoCaptions,
        a \in Afters,
        ls \in UNION {[1..k -> LinkTargets] : k \in 0..MaxLinks}}

\* most lines of a card handed to _parse_subsidy_card, beside its link
MaxCardLines == 2

\* lines a result card may hold
FieldLines ==
    { <<"KOUBOCHU">>, <<"KOUBO_SHURYO">>,
      TitleLine(1),
      <<"KAGI", "text20">>,
      <<"TOKYOTO", "COLON", "KAGI", "text20">>,
      <<"FUKUIKEN">>,
      <<"SHINSEIKIKAN", " ", "DATE1", "KARA", "DATE2">>,
      <<"SHINSEIKIKAN", "KARA", " ", "DATE2">>,
      <<"JOGENKINGAKU", " ", "1", "0", "0", "MANEN">>,
      <<"text20">>,
      <<"text20", "X">>,
      <<"HOKKAIDO", "text20">>,
      <<"#", "MONODUKURI", "#", "D", "X">>,
      <<"#", "SHOENE", " ", "#", "#", "SETSUBI", "#">>,
      <<"D", "X", "#", "SHOENE">> }

\* containers handed to _parse_subsidy_card: up to MaxCardLines lines, one
\* element each, and the link to the detail page
FieldCards ==
    {Elem("div", [i \in 1..Len(ls) |-> Elem("p", <<TextNode(ls[i])>>)]
                    \o <<Anchor(DetailHref(FALSE, 1), <<TextNode(MoreText)>>)>>) :
        ls \in UNION {[1..k -> FieldLines] : k \in 0..MaxCardLines}}

\* most headings on a detail page
MaxHeadings == 2

\* heading texts of a detail page
HeadingTexts ==
    { <<"GAIYO">>, <<"MOKUTEKI">>, <<"TAISHOSHA">>, <<"TAISHO">>, <<"HOJORITSU">>,
      <<"HOJOJOGEN">>, <<"HOJOKINGAKU">>, <<"TAISHOKEIHI">>, <<"HOJOTAISHO">>,
      <<"SHINSEIHOHO">>, <<"TOIAWASE">>, <<"RENRAKUSAKI">>, <<"SHOENE">> }

\* a heading and the element that holds its value
Section(n, heading) ==
    <<Elem("h3", <<TextNode(heading)>>), Elem("div", <<TextNode(<<"SETSUBI">> \o n)>>)>>

\* the main-content container: nothing, a short paragraph, or long paragraphs
ContentBlocks ==
    { <<>>,
      <<ClassElem("div", "content", <<Elem("p", <<TextNode(<<"text45">>)>>)>>)>>,
      <<Elem("main", <<Elem("p", <<TextNode(<<"text45", "SETSUBI">>)>>),
                       Elem("p", <<TextNode(<<"text45", "SHOENE">>)>>)>>)>> }

\* detail pages: up to MaxHeadings headings with their values, then the content
DetailDocs ==
    {Doc(Flatten([i \in 1..Len(hs) |-> Section(<<"1">>, hs[i])]) \o content) :
        hs \in UNION {[1..k -> HeadingTexts] : k \in 0..MaxHeadings},
        content \in ContentBlocks}

\* most records in the data of a search
MaxRecords == 2

\* a record of the data files with the fields the search reads
Stored(n, prefecture, status, tags) ==
    [id |-> n,
     url |-> DetailHref(TRUE, n),
     status |-> status,
     title |-> <<TitleLine(1)>>,
     prefecture |-> prefecture,
     application_period |-> <<>>,
     start_date |-> <<>>,
     end_date |-> <<>>,
     max_amount |-> <<>>,
     description |-> <<>>,
     tags |-> tags,
     details |-> <<>>]

StoredRecords ==
    { Stored(1, << <<"FUKUIKEN">> >>, << <<"KOUBOCHU">> >>, <<>>),
      Stored(2, <<>>, << <<"KOUBOCHU">> >>, <<>>),
      Stored(3, <<>>, << <<"KOUBOCHU">> >>, << << <<"#", "FUKUIKEN">>, <<"#", "D", "X">> >> >>),
      Stored(4, << <<"TOKYOTO">> >>, << <<"KOUBOSHURYO">> >>, << << <<"#", "SETSUBI">> >> >>),
      Stored(5, << <<"HOKKAIDO">> >>, <<>>, <<>>) }

\* the arguments of a search
Keywords == { <<>>, <<"SHOENE">>, <<"D", "X">> }

Areas == { <<>>, <<"FUKUIKEN">>, <<"FUKUI">>, <<"FUKUIKEN", "SAKAISHI">> }

SearchCalls ==
    [subsidies : UNION {[1..k -> StoredRecords] : k \in 0..MaxRecords},
     keyword : Keywords,
     target_area : Areas,
     acceptance_only : BOOLEAN]

-----------------------------------------------------------------------------
(* Direct calls of the page functions *)

ScrapeIdle ==
    /\ pc = "idle"
    /\ delay = 10
    /\ fetch_details = TRUE
    /\ max_pages = <<>>
    /\ all_subsidies = <<>>
    /\ html = <<>>
    /\ total_pages = 0
    /\ page = 0
    /\ idx = 0
    /\ listed = <<>>
    /\ log = <<>>
    /\ accepted = <<>>
    /\ first = <<>>
    /\ file = <<>>

PageInit ==
    /\ ScrapeIdle
    /\ ret = <<>>
    /\ cards = {}
    /\ \/ fn = "pages" /\ arg \in [html : PaginationDocs, seen : {{}}]
       \/ fn = "list" /\ arg \in [html : NestedDocs, seen : {{}}]
       \/ fn = "list" /\ arg \in [html : FlatDocs, seen : {{}, {DetailHref(TRUE, 1)}}]
       \/ fn = "card" /\ arg \in [html : FieldCards, seen : {{}}]
       \/ fn = "detail" /\ arg \in [html : DetailDocs, seen : {{}}]
       \/ fn = "search" /\ arg \in SearchCalls
    /\ scraped_urls = IF fn = "search" THEN {} ELSE arg.seen

CallTotalPages ==
    /\ fn = "pages"
    /\ ret = <<>>
    /\ ret' = <<_get_total_pages(arg.html)>>
    /\ UNCHANGED <<scrapeVars, scraped_urls, accepted, fn, arg, cards>>

CallParseListPage ==
    /\ fn = "list"
    /\ ret = <<>>
    /\ \E r \in {_parse_list_page(arg.html, scraped_urls)} :
          /\ ret' = <<r.subsidies>>
          /\ scraped_urls' = r.seen
          /\ cards' = r.processed_cards
          /\ accepted' = r.accepted
    /\ UNCHANGED <<scrapeVars, fn, arg>>

\* _parse_subsidy_card(card): ret holds what it returns, <<>> for None
CallParseCard ==
    /\ fn = "card"
    /\ ret = <<>>
    /\ \E r \in {_parse_subsidy_card(arg.html, scraped_urls)} :
          /\ ret' = <<r.subsidy>>
          /\ scraped_urls' = r.seen
    /\ UNCHANGED <<scrapeVars, accepted, fn, arg, cards>>

\* _fetch_detail_page(url) when the fetch gives the page
CallFetchDetailPage ==
    /\ fn = "detail"
    /\ ret = <<>>
    /\ ret' = <<_fetch_detail_page(<<arg.html>>)>>
    /\ UNCHANGED <<scrapeVars, scraped_urls, accepted, fn, arg, cards>>

\* LocalSubsidySearcher.search(keyword, target_area, acceptance_only)
CallSearch ==
    /\ fn = "search"
    /\ ret = <<>>
    /\ ret' = <<search(arg.subsidies, arg.keyword, arg.target_area, arg.acceptance_only)>>
    /\ UNCHANGED <<scrapeVars, scraped_urls, accepted, fn, arg, cards>>

PageNext ==
    CallTotalPages \/ CallParseListPage \/ CallParseCard \/ CallFetchDetailPage
        \/ CallSearch

PageSpec == PageInit /\ [][PageNext]_vars

-----------------------------------------------------------------------------
(* Dedup/aggregation driver: scrape_all *)

\* largest number of listing pages a caption of the portal announces
MaxSitePages == 3

\* self.delay in tenths of a second: the library default 1.0 and the CLI default 1.5
Delays == {10, 15}

\* the max_pages argument: None or an integer
MaxPagesArgs == {<<>>} \cup {<<m>> : m \in -1..(MaxSitePages - 1)}

\* what _fetch_page returns for listing page 1: None, "" or a page with a caption
FirstResponses ==
    {<<>>, <<EmptyDoc>>}
        \cup {<<ListDoc(CaptionFor(k), cs)>> : k \in 1..MaxSitePages, cs \in CardLists}

\* what _fetch_page returns for a later listing page, whose caption is not read
LaterResponses == {<<>>, <<EmptyDoc>>} \cup {<<ListDoc(<<>>, cs)>> : cs \in CardLists}

\* a detail page with an overview heading, a long paragraph and an official link
RichDetailDoc ==
    Doc(<<Elem("h2", <<TextNode(<<"GAIYO">>)>>),
          Elem("div", <<TextNode(<<"SHOENE", " ">>)>>),
          ClassElem("div", "content", <<Elem("p", <<TextNode(<<"text45", "SETSUBI">>)>>)>>),
          Anchor(ExternalHref, <<TextNode(<<"KOSHIKI">>)>>)>>)

\* a detail page on which nothing is recognised
BareDetailDoc == Doc(<<Elem("h1", <<TextNode(TitleLine(1))>>)>>)

\* what _fetch_page returns for a detail page
DetailResponses == {<<>>, <<RichDetailDoc>>, <<BareDetailDoc>>}

\* "if not html": None or the empty string
Falsy(fetched) == fetched = <<>> \/ fetched[1].kids = <<>>

\* _build_url(page)
_build_url(p) == [kind |-> "list", abs |-> TRUE, n |-> p]

\* log entries
Slept(secs) == [op |-> "sleep", secs |-> secs, url |-> NoHref, body |-> <<>>]

Got(url, fetched) == [op |-> "get", secs |-> 0, url |-> url, body |-> fetched]

\* What _fetch_page returns for url: one of family, and in a second scrape_all call
\* what the first call got for the same url (the site has not changed)
Served(url, family) ==
    LET earlier == IF first = <<>> THEN {}
                   ELSE {e \in Range(first[1].log) : e.op = "get" /\ e.url = url}
    IN  IF earlier = {} THEN family ELSE {e.body : e \in earlier}

\* "if max_pages: total_pages = min(total_pages, max_pages)"
Capped(total, m) == IF m # <<>> /\ m[1] # 0 THEN Min(total, m[1]) ELSE total

\* the scraper object after __init__, before any call
Constructed ==
    /\ pc = "idle"
    /\ delay \in Delays
    /\ fetch_details \in BOOLEAN
    /\ scraped_urls = {}
    /\ max_pages = <<>>
    /\ all_subsidies = <<>>
    /\ html = <<>>
    /\ total_pages = 0
    /\ page = 0
    /\ idx = 0
    /\ listed = <<>>
    /\ log = <<>>
    /\ accepted = <<>>
    /\ first = <<>>
    /\ fn = "none"
    /\ arg = [html |-> EmptyDoc, seen |-> {}]
    /\ ret = <<>>
    /\ cards = {}

Init == Constructed /\ file = <<>>

\* scrape_all is called: lines 295-296
ScrapeAll ==
    /\ pc = "idle"
    /\ \E m \in MaxPagesArgs : max_pages' = m
    /\ all_subsidies' = <<>>
    /\ scraped_urls' = {}
    /\ log' = <<>>
    /\ accepted' = <<>>
    /\ pc' = "first"
    /\ UNCHANGED <<delay, fetch_details, html, total_pages, page, idx, listed,
                   first, file, fn, arg, ret, cards>>

\* ScrapeAllAgain without "self.scraped_urls.clear()"
ScrapeAllAgain_NoClear ==
    /\ pc = "done"
    /\ first = <<>>
    /\ first' = <<[log |-> log, ret |-> all_subsidies]>>
    /\ all_subsidies' = <<>>
    /\ log' = <<>>
    /\ accepted' = <<>>
    /\ pc' = "first"
    /\ UNCHANGED <<delay, fetch_details, scraped_urls, max_pages, html, total_pages,
                   page, idx, listed, file, fn, arg, ret, cards>>

\* scrape_all is called a second time on the same object, with the same argument,
\* after the first call returned: lines 295-296
ScrapeAllAgain ==
    /\ pc = "done"
    /\ first = <<>>
    /\ first' = <<[log |-> log, ret |-> all_subsidies]>>
    /\ all_subsidies' = <<>>
    /\ scraped_urls' = {}
    /\ log' = <<>>
    /\ accepted' = <<>>
    /\ pc' = "first"
    /\ UNCHANGED <<delay, fetch_details, max_pages, html, total_pages, page, idx,
                   listed, file, fn, arg, ret, cards>>

\* FetchFirstPage with a retry: a failed fetch of the first page is tried again
FetchFirstPage_Retry ==
    /\ pc = "first"
    /\ \E fetched \in Served(_build_url(1), FirstResponses) :
          /\ log' = Append(log, Got(_build_url(1), fetched))
          /\ html' = fetched
          /\ IF Falsy(fetched)
             THEN /\ pc' = IF Len(log) < 2 THEN "first" ELSE "done"
                  /\ UNCHANGED <<total_pages, page>>
             ELSE /\ total_pages' = Capped(_get_total_pages(fetched[1]), max_pages)
                  /\ page' = 1
                  /\ pc' = "pages"
    /\ UNCHANGED <<delay, fetch_details, scraped_urls, max_pages, all_subsidies, idx,
                   listed, accepted, first, file, fn, arg, ret, cards>>

\* the first page is fetched and the number of pages resolved: lines 298-315
FetchFirstPage ==
    /\ pc = "first"
    /\ \E fetched \in Served(_build_url(1), FirstResponses) :
          /\ log' = Append(log, Got(_build_url(1), fetched))
          /\ html' = fetched
          /\ IF Falsy(fetched)
             THEN /\ pc' = "done"
                  /\ UNCHANGED <<total_pages, page>>
             ELSE /\ total_pages' = Capped(_get_total_pages(fetched[1]), max_pages)
                  /\ page' = 1
                  /\ pc' = "pages"
    /\ UNCHANGED <<delay, fetch_details, scraped_urls, max_pages, all_subsidies, idx,
                   listed, accepted, first, file, fn, arg, ret, cards>>

\* html is parsed and its records are added: lines 327-328
ExtendWith(doc) ==
    \E r \in {_parse_list_page(doc, scraped_urls)} :
        /\ all_subsidies' = all_subsidies \o r.subsidies
        /\ scraped_urls' = r.seen
        /\ accepted' = accepted \o r.accepted

\* one round of "for page in range(1, total_pages + 1)": lines 318-329
ListPage ==
    /\ pc = "pages"
    /\ page <= total_pages
    /\ \/ /\ page = 1
          /\ ExtendWith(html[1])
          /\ UNCHANGED <<html, log>>
       \/ /\ page > 1
          /\ \E fetched \in Served(_build_url(page), LaterResponses) :
                /\ log' = log \o <<Slept(delay), Got(_build_url(page), fetched)>>
                /\ html' = fetched
                /\ IF Falsy(fetched)
                   THEN UNCHANGED <<all_subsidies, scraped_urls, accepted>>
                   ELSE ExtendWith(fetched[1])
    /\ page' = page + 1
    /\ UNCHANGED <<pc, delay, fetch_details, max_pages, total_pages, idx, listed,
                   first, file, fn, arg, ret, cards>>

\* the listing loop ends: line 332
EndListing ==
    /\ pc = "pages"
    /\ page > total_pages
    /\ listed' = all_subsidies
    /\ IF fetch_details /\ all_subsidies # <<>>
       THEN pc' = "details" /\ idx' = 1
       ELSE pc' = "done" /\ idx' = idx
    /\ UNCHANGED <<delay, fetch_details, scraped_urls, max_pages, all_subsidies, html,
                   total_pages, page, log, accepted, first, file, fn, arg, ret, cards>>

\* Enriched without "if details:"
Enriched_Always(subsidy, details) == [subsidy EXCEPT !.details = <<details>>]

\* subsidy["details"] = details when details is not empty
Enriched(subsidy, details) ==
    IF details # <<>> THEN [subsidy EXCEPT !.details = <<details>>] ELSE subsidy

\* EnrichOne with the delay between detail fetches only, none before the first
EnrichOne_SleepBetween ==
    /\ pc = "details"
    /\ idx <= Len(all_subsidies)
    /\ \E fetched \in Served(all_subsidies[idx].url, DetailResponses) :
          /\ log' = log \o (IF idx > 1 THEN <<Slept(delay)>> ELSE <<>>)
                        \o <<Got(all_subsidies[idx].url, fetched)>>
          /\ all_subsidies' =
                [all_subsidies EXCEPT
                    ![idx] = IF _fetch_detail_page(fetched) # <<>>
                             THEN [all_subsidies[idx] EXCEPT
                                      !.details = <<_fetch_detail_page(fetched)>>]
                             ELSE all_subsidies[idx]]
    /\ idx' = idx + 1
    /\ UNCHANGED <<pc, delay, fetch_details, scraped_urls, max_pages, html, total_pages,
                   page, listed, accepted, first, file, fn, arg, ret, cards>>

\* one round of "for i, subsidy in enumerate(all_subsidies)": lines 335-341;
\* every record has a "url" key
EnrichOne ==
    /\ pc = "details"
    /\ idx <= Len(all_subsidies)
    /\ \E fetched \in Served(all_subsidies[idx].url, DetailResponses) :
          /\ log' = log \o <<Slept(delay), Got(all_subsidies[idx].url, fetched)>>
          /\ all_subsidies' =
                [all_subsidies EXCEPT
                    ![idx] = Enriched(all_subsidies[idx], _fetch_detail_page(fetched))]
    /\ idx' = idx + 1
    /\ UNCHANGED <<pc, delay, fetch_details, scraped_urls, max_pages, html, total_pages,
                   page, listed, accepted, first, file, fn, arg, ret, cards>>

\* return all_subsidies: line 343
Return ==
    /\ pc = "details"
    /\ idx > Len(all_subsidies)
    /\ pc' = "done"
    /\ UNCHANGED <<delay, fetch_details, scraped_urls, max_pages, all_subsidies, html,
                   total_pages, page, idx, listed, log, accepted, first, file,
                   fn, arg, ret, cards>>

Next == ScrapeAll \/ FetchFirstPage \/ ListPage \/ EndListing \/ EnrichOne \/ Return

Spec == Init /\ [][Next]_vars

-----------------------------------------------------------------------------
(* Two scrape_all calls on one scraper object *)

TwiceInit == Init /\ delay = 10

TwiceNext == Next \/ ScrapeAllAgain

TwiceSpec == TwiceInit /\ [][TwiceNext]_vars

-----------------------------------------------------------------------------
(* The command line entry point: main, save_to_json *)

\* what save_to_json writes: the metadata (without the time stamp) and the records
SavedData(subsidies) ==
    [metadata |-> [source |-> "https://hojyokin-portal.jp/subsidies/list",
                   prefecture_id |-> DEFAULT_PREF_ID,
                   total_count |-> Len(subsidies)],
     subsidies |-> subsidies]

\* the record an earlier run without enrichment saved for one result card
EarlierRecord == _parse_subsidy_card(Card("full", 2), {}).subsidy[1]

\* before main runs the output file does not exist, or holds what an earlier run
\* saved; main builds the scraper with the delay of its own default
MainInit ==
    /\ Constructed
    /\ delay = 15
    /\ file \in {<<>>, <<SavedData(<<EarlierRecord>>)>>}

\* main after scrape_all returned: lines 407-414
Save ==
    /\ pc = "done"
    /\ file' = IF all_subsidies # <<>> THEN <<SavedData(all_subsidies)>> ELSE file
    /\ pc' = "exit"
    /\ UNCHANGED <<delay, fetch_details, scraped_urls, max_pages, all_subsidies, html,
                   total_pages, page, idx, listed, log, accepted, first,
                   fn, arg, ret, cards>>

MainNext == Next \/ Save

MainSpec == MainInit /\ [][MainNext]_vars

-----------------------------------------------------------------------------
(* Properties of the page functions *)

\* the paths of all nodes of the subtree at path
RECURSIVE NodePaths(_, _)
NodePaths(node, path) ==
    {path} \cup UNION {NodePaths(node.kids[i], Append(path, i)) : i \in 1..Len(node.kids)}

\* the element k levels above the node at path
Ancestor(doc, path, k) == NodeAt(doc, SubSeq(path, 1, Len(path) - k))

\* a block-level container
IsBlock(node) == node.name \in {"article", "div", "li", "section"}

\* a line holds the title bracket
IsTitleLine(line) == "KAGI" \in Range(line)

\* a line of the node holds the title bracket
RECURSIVE HoldsTitle(_)
HoldsTitle(node) ==
    IF node.name = "#text" THEN IsTitleLine(node.text)
    ELSE \E i \in 1..Len(node.kids) : HoldsTitle(node.kids[i])

\* the number of characters of the text of the node
RECURSIVE TextLen(_)
TextLen(node) ==
    IF node.name = "#text" THEN StrLen(node.text)
    ELSE SumSeq([i \in 1..Len(node.kids) |-> TextLen(node.kids[i])])

\* the first line that holds the title bracket
RECURSIVE FirstTitleLine(_)
FirstTitleLine(lines) ==
    IF IsTitleLine(Head(lines)) THEN Head(lines) ELSE FirstTitleLine(Tail(lines))

\* a line without the status words
RECURSIVE WithoutStatus(_)
WithoutStatus(line) ==
    IF line = <<>> THEN <<>>
    ELSE (IF Head(line) \in {"KOUBOCHU", "KOUBOSHURYO"} THEN <<>> ELSE <<Head(line)>>)
            \o WithoutStatus(Tail(line))

\* the first title line of the node without status words and outer blanks
TitleLineOf(node) == Strip(WithoutStatus(FirstTitleLine(GetLines(node))))

\* the absolute URL and the digit segment of a detail anchor
UrlOf(anchor) == [kind |-> "detail", abs |-> TRUE, n |-> anchor.href.n]

\* the list holds exactly one record for the anchor, with its id, url and the title
OneRecordFor(list, anchor, card) ==
    /\ Cardinality({i \in 1..Len(list) : list[i].url = UrlOf(anchor)}) = 1
    /\ \A r \in Range(list) :
          r.url = UrlOf(anchor) => r.id = anchor.href.n /\ r.title = <<TitleLineOf(card)>>

\* the links that come before link in links
RECURSIVE Before(_, _)
Before(links, link) ==
    IF links = <<>> \/ Head(links) = link THEN <<>>
    ELSE <<Head(links)>> \o Before(Tail(links), link)

\* the detail anchor at link lies in a titled card k levels above it, and its URL
\* was seen neither before the call nor at an earlier anchor of the page
CardCase(doc, seen, link, k) ==
    /\ IsBlock(Ancestor(doc, link, k))
    /\ TextLen(Ancestor(doc, link, k)) > 50
    /\ HoldsTitle(Ancestor(doc, link, k))
    /\ UrlOf(NodeAt(doc, link)) \notin seen
    /\ \A earlier \in Range(Before(DetailLinks(doc, <<>>), link)) :
          UrlOf(NodeAt(doc, earlier)) # UrlOf(NodeAt(doc, link))

\* the card is the nearest block-level ancestor of the anchor with more than 50
\* characters, at most 5 levels up, and the anchor is the first detail anchor in it
NearestCard(doc, link, k) ==
    LET card == Ancestor(doc, link, k)
    IN  /\ k <= 5
        /\ \A m \in 1..(k - 1) :
              ~(IsBlock(Ancestor(doc, link, m))
                  /\ TextLen(Ancestor(doc, link, m)) > 50)
        /\ NodeAt(card, DetailLinks(card, <<>>)[1]) = NodeAt(doc, link)

\* C4 as stated: whatever lies between the anchor and its titled card,
\* _parse_list_page returns exactly one record for the card, with the anchor's id
\* and absolute URL and the title of the card's title line.
C4_AnyNesting ==
    fn = "list" /\ ret # <<>> =>
        \A link \in Range(DetailLinks(arg.html, <<>>)) : \A k \in 1..Len(link) :
            CardCase(arg.html, arg.seen, link, k) =>
                OneRecordFor(ret[1], NodeAt(arg.html, link), Ancestor(arg.html, link, k))

\* C4 amended: when the titled card is the nearest block-level ancestor of the
\* anchor with more than 50 characters of text, at most 5 levels above it, and the
\* anchor is the first detail anchor in the card, _parse_list_page returns exactly
\* one record for the card, with the anchor's id and absolute URL and the title of
\* the card's title line.
C4_NearestCard ==
    fn = "list" /\ ret # <<>> =>
        \A link \in Range(DetailLinks(arg.html, <<>>)) : \A k \in 1..Len(link) :
            CardCase(arg.html, arg.seen, link, k) /\ NearestCard(arg.html, link, k) =>
                OneRecordFor(ret[1], NodeAt(arg.html, link), Ancestor(arg.html, link, k))

\* a call returned the record of a card that lies 3 levels above its anchor, with
\* block-level markup in between
C4_Witness ==
    /\ fn = "list"
    /\ ret # <<>>
    /\ \E link \in Range(DetailLinks(arg.html, <<>>)) :
          /\ Len(link) >= 3
          /\ CardCase(arg.html, arg.seen, link, 3) /\ NearestCard(arg.html, link, 3)
          /\ IsBlock(Ancestor(arg.html, link, 1))
          /\ OneRecordFor(ret[1], NodeAt(arg.html, link), Ancestor(arg.html, link, 3))

\* the number a caption shows: the digits that follow the marker on its line and
\* precede the counter; <<>> when the text holds no caption
CaptionNumber(text) ==
    LET spans == {jk \in (1..Len(text)) \X (1..Len(text)) :
                    /\ jk[1] <= jk[2]
                    /\ \A i \in jk[1]..jk[2] : text[i] \in Digits
                    /\ jk[1] > 1 /\ text[jk[1] - 1] \notin Digits
                    /\ SpacesThenKen(text, jk[2] + 1)
                    /\ \E s \in 1..(jk[1] - 1) :
                          /\ text[s] = "GAITOU"
                          /\ \A i \in (s + 1)..(jk[1] - 1) :
                                text[i] \notin Digits \cup {"\n", "KEN"}}
    IN  IF spans = {} THEN <<>>
        ELSE LET jk == CHOOSE x \in spans : \A y \in spans : x[1] <= y[1]
             IN  <<ToInt(SubSeq(text, jk[1], jk[2]))>>

\* ceiling(n / 10)
Ceil10(n) == (n \div 10) + (IF n % 10 = 0 THEN 0 ELSE 1)

\* C5: for every positive number N shown by the total-count caption,
\* _get_total_pages returns ceiling(N / 10).
C5_PagesAreCeiling ==
    fn = "pages" /\ ret # <<>> =>
        LET n == CaptionNumber(GetText(arg.html))
        IN  n # <<>> /\ n[1] > 0 => ret[1] = Ceil10(n[1])

\* the page numbers of the links that carry a page parameter
PageNumbers(doc) == {h.n : h \in {x \in Range(AllHrefs(doc)) : x.kind = "page"}}

SetMax(S) == CHOOSE x \in S : \A y \in S : y <= x

\* the text holds digits followed by the counter
HoldsCount(text) ==
    \E j \in 1..Len(text) : text[j] \in Digits /\ SpacesThenKen(text, j + 1)

\* C6 as stated: without a total-count caption, whatever else the text holds,
\* _get_total_pages returns the largest page number among the links, and 1 when
\* no link has one.
C6_FallbackAnyText ==
    fn = "pages" /\ ret # <<>> /\ CaptionNumber(GetText(arg.html)) = <<>> =>
        ret[1] = (IF PageNumbers(arg.html) = {} THEN 1 ELSE SetMax(PageNumbers(arg.html)))

\* C6 amended: when the text holds neither a caption nor any other digits followed
\* by the counter, _get_total_pages returns the largest page number among the
\* links or 1, whichever is larger, and 1 when no link has a page number.
C6_FallbackNoCount ==
    fn = "pages" /\ ret # <<>> /\ ~HoldsCount(GetText(arg.html)) =>
        ret[1] = SetMax(PageNumbers(arg.html) \cup {1})

\* a call on a page without any count text whose links reach page 3
C6_Witness ==
    /\ fn = "pages"
    /\ ret = <<3>>
    /\ ~HoldsCount(GetText(arg.html))
    /\ GetText(arg.html) # <<>>
    /\ PageNumbers(arg.html) = {2, 3}

\* C10: a block-level container with 50 characters of text or fewer is never
\* handed to _parse_subsidy_card.
C10_ShortNeverCard ==
    fn = "list" /\ ret # <<>> =>
        \A p \in NodePaths(arg.html, <<>>) :
            IsBlock(NodeAt(arg.html, p)) /\ TextLen(NodeAt(arg.html, p)) <= 50 =>
                NodeAt(arg.html, p) \notin cards

\* a call on a page where a container of exactly 50 characters holds the detail
\* anchor: the container was passed over and a larger one gave the record
C10_Witness ==
    /\ fn = "list"
    /\ ret # <<>> /\ ret[1] # <<>>
    /\ \E link \in Range(DetailLinks(arg.html, <<>>)) :
          /\ IsBlock(Ancestor(arg.html, link, 1))
          /\ TextLen(Ancestor(arg.html, link, 1)) = 50
          /\ Ancestor(arg.html, link, 1) \notin cards

-----------------------------------------------------------------------------
(* Properties of the card fields *)

\* the record a call of _parse_subsidy_card returned
Returned == fn = "card" /\ ret # <<>> /\ ret[1] # <<>>

\* the position of the first "#" of line after position i, Len(line) + 1 if none
NextHash(line, i) ==
    LET later == {j \in (i + 1)..Len(line) : line[j] = "#"}
    IN  IF later = {} THEN Len(line) + 1 ELSE CHOOSE x \in later : \A y \in later : x <= y

\* line split at every "#": the pieces that start at position i or later
RECURSIVE PiecesFrom(_, _)
PiecesFrom(line, i) ==
    IF i > Len(line) THEN <<>>
    ELSE (IF line[i] = "#" THEN <<SubSeq(line, i, NextHash(line, i) - 1)>> ELSE <<>>)
            \o PiecesFrom(line, i + 1)

\* a piece holds more than the marker
IsTag(piece) == Len(piece) > 1

\* the pieces of line that hold more than the marker, without outer blanks
TagPieces(line) ==
    LET pieces == SelectSeq(PiecesFrom(line, 1), IsTag)
    IN  [i \in 1..Len(pieces) |-> Strip(pieces[i])]

\* the pieces of every line that starts with "#", in line order
RECURSIVE ExpectedTags(_)
ExpectedTags(lines) ==
    IF lines = <<>> THEN <<>>
    ELSE (IF Head(Head(lines)) = "#" THEN TagPieces(Head(lines)) ELSE <<>>)
            \o ExpectedTags(Tail(lines))

\* the line of the example and its two tags
ExampleTagLine == <<"#", "MONODUKURI", "#", "D", "X">>

ExampleTags == << <<"#", "MONODUKURI">>, <<"#", "D", "X">> >>

\* C12: the tags of a record are, in line order, the pieces of every card line
\* that starts with "#", each line split at every "#"; every tag begins with "#"
\* and holds no other "#"; the example line gives its two tags.
C12_TagsOfEveryHashLine ==
    Returned =>
        LET tags == GetOr(ret[1][1].tags, <<>>)
            lines == GetLines(arg.html)
        IN  /\ tags = ExpectedTags(lines)
            /\ \A i \in 1..Len(tags) :
                  /\ tags[i][1] = "#"
                  /\ \A k \in 2..Len(tags[i]) : tags[i][k] # "#"
            /\ \A i \in 1..Len(lines) :
                  /\ lines[i] = ExampleTagLine
                  /\ \A k \in 1..Len(lines) : k # i => Head(lines[k]) # "#"
                  => tags = ExampleTags

\* a card with two tag lines, the second being the example: the record has the
\* tags of both, the first line's before the example's
C12_Witness ==
    /\ Returned
    /\ Len(GetLines(arg.html)) >= 2
    /\ Head(GetLines(arg.html)[1]) = "#"
    /\ GetLines(arg.html)[2] = ExampleTagLine
    /\ ret[1][1].tags # <<>>
    /\ Len(ret[1][1].tags[1]) = 4
    /\ SubSeq(ret[1][1].tags[1], 3, 4) = ExampleTags

\* a line can be the description: at least 20 characters, none of the exclusion
\* keywords, no title bracket, and it is no tag line
Qualifies(line) ==
    /\ StrLen(line) >= 20
    /\ \A kw \in {"KOUBOCHU", "KOUBOSHURYO", "SHINSEIKIKAN", "JOGENKINGAKU",
                    "FUKUIKEN", "HOKKAIDO"} : ~Contains(line, kw)
    /\ ~IsTitleLine(line)
    /\ Head(line) # "#"

\* the first line that can be the description, <<>> when there is none
RECURSIVE FirstQualifying(_)
FirstQualifying(lines) ==
    IF lines = <<>> THEN <<>>
    ELSE IF Qualifies(Head(lines)) THEN <<Head(lines)>>
    ELSE FirstQualifying(Tail(lines))

\* C13: the description of a record is the first card line with at least 20
\* characters, none of the exclusion keywords and no title bracket; the line
\* chosen as title is never also the description.
C13_DescriptionFirstQualifying ==
    Returned =>
        /\ ret[1][1].description = FirstQualifying(GetLines(arg.html))
        /\ ret[1][1].description # <<>> => ~IsTitleLine(ret[1][1].description[1])

\* the texts of the headings of a detail page
HeadingsOf(doc) ==
    {GetTextStripped(doc.kids[i]) :
        i \in {k \in 1..Len(doc.kids) : doc.kids[k].name \in {"h2", "h3", "h4", "dt", "th"}}}

\* C15: a details map never holds both overview and full_description.
C15_OverviewXorFullDescription ==
    fn = "detail" /\ ret # <<>> =>
        ~({"overview", "full_description"} \subseteq DOMAIN ret[1])

\* C16: a heading that contains the eligible-expenses words sets
\* eligible_expenses (so that each of the seven fields can be populated).
C16_ExpensesHeadingSetsField ==
    fn = "detail" /\ ret # <<>> =>
        \A h \in HeadingsOf(arg.html) :
            Contains(h, "TAISHOKEIHI") \/ Contains(h, "HOJOTAISHO") =>
                "eligible_expenses" \in DOMAIN ret[1]

\* a record matches the area: its prefecture is not empty and holds or is held by
\* the area, or one of its tags holds the area
MatchesArea(subsidy, area) ==
    \/ /\ subsidy.prefecture # <<>>
       /\ subsidy.prefecture[1] # <<>>
       /\ In(area, subsidy.prefecture[1]) \/ In(subsidy.prefecture[1], area)
    \/ /\ subsidy.tags # <<>>
       /\ \E tag \in Range(subsidy.tags[1]) : In(area, tag)

\* C18: when search is called with a non-empty target_area, every returned record
\* matches that area.
C18_ResultsMatchArea ==
    fn = "search" /\ ret # <<>> /\ arg.target_area # <<>> =>
        \A r \in Range(ret[1]) : MatchesArea(r, arg.target_area)

-----------------------------------------------------------------------------
(* Properties of scrape_all *)

IsListGet(e) == e.op = "get" /\ e.url.kind = "list"

IsDetailGet(e) == e.op = "get" /\ e.url.kind = "detail"

\* the fetches of listing pages and of detail pages made so far, in order
ListGets == SelectSeq(log, IsListGet)

DetailGets == SelectSeq(log, IsDetailGet)

\* the run has ended and its first page was fetched
Finished == pc = "done" /\ log # <<>> /\ ~Falsy(log[1].body)

\* the records without their "details" key
WithoutDetails(list) == [i \in 1..Len(list) |-> [list[i] EXCEPT !.details = <<>>]]

\* the absolute detail URLs a page refers to
UrlsOn(doc) ==
    [i \in 1..Len(DetailLinks(doc, <<>>)) |-> UrlOf(NodeAt(doc, DetailLinks(doc, <<>>)[i]))]

\* C1: no two records of the list that scrape_all builds and returns have the
\* same url.
C1_UniqueUrls ==
    \A i, j \in 1..Len(all_subsidies) :
        i # j => all_subsidies[i].url # all_subsidies[j].url

\* a finished run in which two listing pages referred to the same detail URL, one
\* of them from two anchors, and which returned two records
C1_Witness ==
    /\ Finished
    /\ Len(all_subsidies) = 2
    /\ \E a, b \in 1..Len(ListGets) :
          /\ a < b
          /\ ~Falsy(ListGets[a].body) /\ ~Falsy(ListGets[b].body)
          /\ \E u \in Range(UrlsOn(ListGets[a].body[1])) :
                Cardinality({i \in 1..Len(UrlsOn(ListGets[b].body[1])) :
                                UrlsOn(ListGets[b].body[1])[i] = u}) = 2

\* C2: when the fetch of the first listing page fails, the run makes no other
\* call, ends, and returns the empty list.
C2_FirstPageFailure ==
    log # <<>> /\ log[1].body = <<>> =>
        Len(log) = 1 /\ pc = "done" /\ all_subsidies = <<>>

\* a run whose first fetch failed
C2_Witness == pc = "done" /\ log = <<Got(_build_url(1), <<>>)>>

\* the records that parsing the fetched listing pages of entries in order gives
RECURSIVE Gathered(_, _, _)
Gathered(entries, seen, acc) ==
    IF entries = <<>> THEN acc
    ELSE IF Falsy(Head(entries).body) THEN Gathered(Tail(entries), seen, acc)
    ELSE Gathered(Tail(entries),
                  _parse_list_page(Head(entries).body[1], seen).seen,
                  acc \o _parse_list_page(Head(entries).body[1], seen).subsidies)

\* the listing pages 2..n were fetched once each, in ascending order, after page 1
FetchedInOrder(n) ==
    /\ Len(ListGets) = Max(n, 1)
    /\ \A k \in 1..Len(ListGets) : ListGets[k].url = _build_url(k)

\* C3: in a run whose first page was fetched and whose page total after the cap is
\* N, pages 2..N are fetched once each in ascending order, a failed page gives no
\* records, and the records of every fetched page are in the result.
C3_EveryFetchedPageListed ==
    Finished =>
        /\ FetchedInOrder(total_pages)
        /\ WithoutDetails(all_subsidies) = Gathered(ListGets, {}, <<>>)

\* C3 for a page total of at least 1.
C3_WhenTotalPositive ==
    Finished /\ total_pages >= 1 =>
        /\ FetchedInOrder(total_pages)
        /\ WithoutDetails(all_subsidies) = Gathered(ListGets, {}, <<>>)

\* C7: with max_pages an integer m, the number of listing pages fetched is
\* min(resolved page total, m) and so never exceeds m.  (Stated for m >= 0: no
\* number of pages equals a negative minimum.)
C7_CapRespected ==
    Finished /\ max_pages # <<>> /\ max_pages[1] >= 0 =>
        /\ Len(ListGets) = Min(_get_total_pages(log[1].body[1]), max_pages[1])
        /\ Len(ListGets) <= max_pages[1]

\* C8: with enrichment enabled, one detail fetch is made per accumulated record, in
\* order; a record whose detail fetch fails has no "details" key; every record is
\* enriched from its own detail page whatever happened to the others; the listing
\* fields and the number of records are those accumulated.
C8_EnrichmentSurvivesFailure ==
    Finished /\ fetch_details =>
        /\ Len(DetailGets) = Len(listed)
        /\ WithoutDetails(all_subsidies) = listed
        /\ \A k \in 1..Len(all_subsidies) :
              /\ DetailGets[k].url = all_subsidies[k].url
              /\ DetailGets[k].body = <<>> => all_subsidies[k].details = <<>>
              /\ all_subsidies[k].details =
                    (IF _fetch_detail_page(DetailGets[k].body) = <<>> THEN <<>>
                     ELSE <<_fetch_detail_page(DetailGets[k].body)>>)

\* a finished run with two records: the detail fetch of the first failed and it has
\* no details, the second has details
C8_Witness ==
    /\ Finished /\ fetch_details
    /\ Len(all_subsidies) = 2
    /\ DetailGets[1].body = <<>> /\ all_subsidies[1].details = <<>>
    /\ all_subsidies[2].details # <<>>
    /\ "overview" \in DOMAIN all_subsidies[2].details[1]

\* C9: the first call of a run is the fetch of listing page 1; every other fetch
\* comes right after one delay of self.delay, which comes right after a fetch.
C9_DelayBeforeEveryLaterFetch ==
    log # <<>> =>
        /\ log[1] = Got(_build_url(1), log[1].body)
        /\ \A k \in 2..Len(log) :
              /\ log[k].op = "get" => log[k - 1] = Slept(delay)
              /\ log[k].op = "sleep" => log[k - 1].op = "get"
        /\ log[Len(log)].op = "get"

\* a run that fetched a second listing page, and whose first detail fetch came
\* right after a delay that followed the last listing fetch
C9_Witness ==
    /\ pc = "done"
    /\ Len(ListGets) >= 2
    /\ \E k \in 3..Len(log) :
          /\ IsDetailGet(log[k])
          /\ log[k - 1] = Slept(delay)
          /\ IsListGet(log[k - 2])

\* C14: every candidate that passed the duplicate check has its URL in the seen
\* set from then on, no later candidate with that URL passes the check in the same
\* run, and when it was dropped for lacking a title no record of the run has that
\* URL.
C14_DroppedUrlStaysOut ==
    \A i \in 1..Len(accepted) :
        /\ accepted[i].url \in scraped_urls
        /\ \A j \in 1..Len(accepted) : j # i => accepted[j].url # accepted[i].url
        /\ ~accepted[i].titled =>
              \A k \in 1..Len(all_subsidies) : all_subsidies[k].url # accepted[i].url

\* a finished run: a candidate of page 1 was dropped for lacking a title, a later
\* page held a titled card for the same URL, and the run has no record for it
C14_Witness ==
    /\ Finished
    /\ \E i \in 1..Len(accepted) :
          /\ ~accepted[i].titled
          /\ accepted[i].url \in Range(UrlsOn(ListGets[1].body[1]))
          /\ \E b \in 2..Len(ListGets) :
                /\ ~Falsy(ListGets[b].body)
                /\ \E link \in Range(DetailLinks(ListGets[b].body[1], <<>>)) :
                      /\ UrlOf(NodeAt(ListGets[b].body[1], link)) = accepted[i].url
                      /\ HoldsTitle(Ancestor(ListGets[b].body[1], link, 1))
          /\ \A k \in 1..Len(all_subsidies) : all_subsidies[k].url # accepted[i].url

\* C17: a second scrape_all call on the same object, against the site content the
\* first call saw, returns the list the first call returned.
C17_SecondCallEqualsFirst ==
    pc = "done" /\ first # <<>> => all_subsidies = first[1].ret

\* a second call that returned two records, one of them enriched, whose URLs were
\* all seen by the first call
C17_Witness ==
    /\ pc = "done" /\ first # <<>>
    /\ Len(all_subsidies) = 2
    /\ \E k \in 1..2 : all_subsidies[k].details # <<>>
    /\ \A k \in 1..2 : \E e \in Range(first[1].log) : e.url = all_subsidies[k].url

\* C11: after a run of main the output file holds the records of that run and
\* their number as total_count, also when the run obtained no record and an
\* earlier run left a file.
C11_FileHoldsRun ==
    pc = "exit" /\ file # <<>> =>
        /\ file[1].subsidies = all_subsidies
        /\ file[1].metadata.total_count = Len(all_subsidies)

====
